---- MODULE Spec2Model ----
(***************************************************************************)
(* Model of crime-analysis-app/frontend/script.js: the dashboard that      *)
(* loads case records and model coefficients over HTTP, filters the        *)
(* records by date, tallies them by a key path, bins victim ages and ranks *)
(* the coefficients.                                                       *)
(***************************************************************************)
EXTENDS Integers, Sequences, FiniteSets, TLC

(***************************************************************************)
(* Bounds of the model.                                                    *)
(***************************************************************************)
\* Longest record array the server answers with.
MaxLen == 2
\* Most entries in the coefficient object the server answers with.
MaxCoefs == 3
\* Largest integer whose decimal numeral the string <-> number tables hold.
MaxNum == 160

(***************************************************************************)
(* JavaScript values.  A finite number is held in halves (h = 2 * value),  *)
(* so that 100.5 is a value of the model; Infinity and NaN are numbers of  *)
(* their own kind.  An object whose property order is irrelevant is a      *)
(* function from property names to values.                                 *)
(***************************************************************************)
Undefined == [t |-> "undefined"]
Null == [t |-> "null"]
Bool(b) == [t |-> "boolean", b |-> b]
Num(h) == [t |-> "number", k |-> "finite", h |-> h]
Inteiro(i) == Num(2 * i)
Infinity == [t |-> "number", k |-> "inf", h |-> 0]
NegInfinity == [t |-> "number", k |-> "-inf", h |-> 0]
NaN == [t |-> "number", k |-> "nan", h |-> 0]
Str(s) == [t |-> "string", s |-> s]
Obj(f) == [t |-> "object", f |-> f]
Arr(a) == [t |-> "array", a |-> a]
\* The completion of an expression that throws.
TypeError == [t |-> "throw"]

IsFinite(v) == v.t = "number" /\ v.k = "finite"

\* typeof v
TypeOf(v) == IF v.t \in {"null", "array"} THEN "object" ELSE v.t

\* ToBoolean(v): what !v, v && ..., v || ... and v ? : test.
Truthy(v) ==
    CASE v.t \in {"undefined", "null"} -> FALSE
      [] v.t = "boolean" -> v.b
      [] v.t = "number" -> v.k \in {"inf", "-inf"} \/ (v.k = "finite" /\ v.h # 0)
      [] v.t = "string" -> v.s # ""
      [] OTHER -> TRUE

\* o[k] for the property names the script reads (none of them is "length" or
\* an index, so a string, a number, a boolean or an array has none of them).
Get(o, k) ==
    CASE o.t \in {"undefined", "null"} -> TypeError
      [] o.t = "object" -> IF k \in DOMAIN o.f THEN o.f[k] ELSE Undefined
      [] OTHER -> Undefined

\* Number::toString of a finite number held in halves.
RECURSIVE NumToString(_)
NumToString(h) ==
    IF h < 0 THEN "-" \o NumToString(-h)
    ELSE IF h % 2 = 0 THEN ToString(h \div 2)
    ELSE ToString(h \div 2) \o ".5"

\* The decimal numerals of the numbers -MaxNum .. MaxNum in halves, and the
\* number each one reads as.
Numerais == { NumToString(h) : h \in (-2 * MaxNum) .. (2 * MaxNum) }
ValorDe == [ s \in Numerais |->
               CHOOSE h \in (-2 * MaxNum) .. (2 * MaxNum) : NumToString(h) = s ]

\* ToString(v) of a property key: contagem[valor] coerces valor to a string.
ToPropertyKey(v) ==
    CASE v.t = "string" -> v.s
      [] v.t = "number" ->
           IF v.k = "finite" THEN NumToString(v.h)
           ELSE IF v.k = "inf" THEN "Infinity"
           ELSE IF v.k = "-inf" THEN "-Infinity" ELSE "NaN"
      [] v.t = "boolean" -> IF v.b THEN "true" ELSE "false"
      [] v.t = "null" -> "null"
      [] v.t = "undefined" -> "undefined"
      [] v.t = "array" -> ""
      [] OTHER -> "[object Object]"

\* Number(v)
ToNumber(v) ==
    CASE v.t = "number" -> v
      [] v.t = "string" ->
           IF v.s = "" THEN Num(0)
           ELSE IF v.s \in Numerais THEN Num(ValorDe[v.s]) ELSE NaN
      [] v.t = "boolean" -> IF v.b THEN Num(2) ELSE Num(0)
      [] v.t = "null" -> Num(0)
      [] OTHER -> NaN

\* An array index: the canonical numeral of a non-negative integer.  Own
\* property keys that are array indices enumerate first, in ascending order.
IsArrayIndex(s) == s \in Numerais /\ ValorDe[s] >= 0 /\ ValorDe[s] % 2 = 0

\* The entries of an object whose property order matters, held as the
\* sequence of its [k, v] properties in creation order, in the order
\* OrdinaryOwnPropertyKeys enumerates them: array indices ascending, then
\* the other keys in creation order.
RECURSIVE SortAsc(_)
SortAsc(S) ==
    IF S = {} THEN <<>>
    ELSE LET m == CHOOSE x \in S : \A y \in S : x <= y
         IN  <<m>> \o SortAsc(S \ {m})

\* A mutant of OwnEntries: every key in creation order.
OwnEntriesPorCriacao(obj) == obj

OwnEntries(obj) ==
    LET idx == { ValorDe[obj[i].k] : i \in { j \in 1 .. Len(obj) : IsArrayIndex(obj[j].k) } }
        ord == SortAsc(idx)
        At(h) == obj[CHOOSE i \in 1 .. Len(obj) : obj[i].k = NumToString(h)]
        NotIndex(e) == ~IsArrayIndex(e.k)
    IN  [ i \in 1 .. Len(ord) |-> At(ord[i]) ] \o SelectSeq(obj, NotIndex)

\* Object.keys(obj), Object.values(obj)
ObjectKeys(obj) == [ i \in 1 .. Len(obj) |-> OwnEntries(obj)[i].k ]
ObjectValues(obj) == [ i \in 1 .. Len(obj) |-> OwnEntries(obj)[i].v ]

(***************************************************************************)
(* Dates.  A time value is a whole number of hours since the epoch;        *)
(* Invalid Date has none.                                                  *)
(***************************************************************************)
Instant(h) == [ok |-> TRUE, h |-> h]
InvalidDate == [ok |-> FALSE, h |-> 0]

\* Date.parse of the strings the model uses: a date-only form is midnight
\* UTC of that day, and anything that is not a date is NaN.
DateParse(s) ==
    CASE s = "2024-01-01" -> Instant(473352)
      [] s = "2024-01-15" -> Instant(473688)
      [] s = "2024-01-15T12:00:00Z" -> Instant(473700)
      [] s = "2024-01-31" -> Instant(474072)
      [] OTHER -> InvalidDate

\* new Date(v): a string is parsed, anything else is ToNumber(v) milliseconds.
NewDate(v) ==
    IF v.t = "string" THEN DateParse(v.s)
    ELSE IF IsFinite(ToNumber(v)) THEN Instant((ToNumber(v).h \div 2) \div 3600000)
    ELSE InvalidDate

\* A mutant of DateGe: the start bound exclusive.
DateGeEstrito(a, b) == a.ok /\ b.ok /\ a.h > b.h

\* a >= b and a <= b on two Date objects: a comparison with NaN is false.
DateGe(a, b) == a.ok /\ b.ok /\ a.h >= b.h
DateLe(a, b) == a.ok /\ b.ok /\ a.h <= b.h

(***************************************************************************)
(* filtrarPorData                                                          *)
(***************************************************************************)
\* The callback of casos.filter: TRUE, FALSE, or TypeError when caso is null.
Mantem(caso, inicio, fim) ==
    LET campo == Get(caso, "data_do_caso") IN
    IF campo = TypeError THEN TypeError
    ELSE IF ~Truthy(campo) THEN Bool(FALSE)
    ELSE LET data == NewDate(campo)
         IN  Bool( (inicio = "" \/ DateGe(data, NewDate(Str(inicio))))
                   /\ (fim = "" \/ DateLe(data, NewDate(Str(fim)))) )

\* casos.filter(...): TypeError when casos has no filter method or the
\* callback throws, the kept subsequence otherwise.
filtrarPorData(casos, inicio, fim) ==
    IF casos.t # "array" THEN TypeError
    ELSE IF \E i \in 1 .. Len(casos.a) : Mantem(casos.a[i], inicio, fim) = TypeError
    THEN TypeError
    ELSE LET Keep(c) == Mantem(c, inicio, fim) = Bool(TRUE)
         IN  Arr(SelectSeq(casos.a, Keep))

(***************************************************************************)
(* contarOcorrencias                                                       *)
(***************************************************************************)
\* chave.split('.')
Partes(chave) ==
    IF chave = "vitima.idade" THEN <<"vitima", "idade">> ELSE <<chave>>

\* partes.reduce((o, k) => o && o[k], o)
RECURSIVE Reduce(_, _)
Reduce(partes, o) ==
    IF partes = <<>> THEN o
    ELSE Reduce(Tail(partes), IF Truthy(o) THEN Get(o, Head(partes)) ELSE o)

\* The value the callback resolves, or TypeError (caught by its try).
Valor(caso, chave) ==
    IF Len(Partes(chave)) > 1 THEN Reduce(Partes(chave), caso) ELSE Get(caso, chave)

\* contagem[valor] = (contagem[valor] || 0) + 1
Incrementa(contagem, key) ==
    IF \E i \in 1 .. Len(contagem) : contagem[i].k = key
    THEN [ i \in 1 .. Len(contagem) |->
             IF contagem[i].k = key
             THEN [k |-> key, v |-> contagem[i].v + 1] ELSE contagem[i] ]
    ELSE Append(contagem, [k |-> key, v |-> 1])

RECURSIVE ContarDesde(_, _, _)
ContarDesde(dados, chave, contagem) ==
    IF dados = <<>> THEN contagem
    ELSE LET valor == Valor(Head(dados), chave)
         IN  ContarDesde(Tail(dados), chave,
                 IF valor.t \in {"throw", "undefined", "null"} THEN contagem
                 ELSE Incrementa(contagem, ToPropertyKey(valor)))

contarOcorrencias(dados, chave) == ContarDesde(dados, chave, <<>>)

\* coresPalette
coresPalette ==
    << "#40516c", "#e4d7dc", "#536878", "#5e1755", "#e08247", "#f88c51", "#a0a0a0" >>

\* The doughnut chart atualizarGraficoRosca builds.
atualizarGraficoRosca(dadosFiltrados, variavel) ==
    LET contagem == contarOcorrencias(dadosFiltrados, variavel)
        labels == ObjectKeys(contagem)
    IN  [ t |-> "chart",
          labels |-> labels,
          data |-> ObjectValues(contagem),
          cores |-> SubSeq(coresPalette, 1,
                       IF Len(labels) < Len(coresPalette) THEN Len(labels)
                       ELSE Len(coresPalette)) ]

(***************************************************************************)
(* atualizarGraficoDistribuicao                                            *)
(***************************************************************************)
\* The completion of a loop that never reaches its exit test: it pushes bins
\* until the engine runs out of memory, and returns no histogram.
NaoTermina == [t |-> "diverge"]

\* c => c.vitima?.idade
IdadeDe(c) ==
    LET vitima == Get(c, "vitima") IN
    IF vitima = TypeError THEN TypeError
    ELSE IF vitima.t \in {"undefined", "null"} THEN Undefined
    ELSE Get(vitima, "idade")

\* i => typeof i === 'number' && !isNaN(i) && i > 0
IdadeValida(i) ==
    /\ TypeOf(i) = "number"
    /\ i.k # "nan"
    /\ (i.k = "inf" \/ (i.k = "finite" /\ i.h > 0))

\* Math.max(...idades, 100) over numbers that are finite or Infinity.
MathMax(idades) ==
    IF \E j \in 1 .. Len(idades) : idades[j].k = "inf" THEN Infinity
    ELSE LET hs == { idades[j].h : j \in 1 .. Len(idades) } \cup {2 * 100}
         IN  Num(CHOOSE m \in hs : \A x \in hs : x <= m)

\* A mutant of Rotulos: each label ends at i + 10.
RECURSIVE RotulosAteDez(_, _)
RotulosAteDez(i, max) ==
    IF 2 * i <= max.h
    THEN <<ToString(i) \o "-" \o ToString(i + 10)>> \o RotulosAteDez(i + 10, max)
    ELSE <<>>

\* for (let i = 1; i <= max; i += 10) labels.push(`${i}-${i + 9}`), from i on,
\* for a finite max.
RECURSIVE Rotulos(_, _)
Rotulos(i, max) ==
    IF 2 * i <= max.h
    THEN <<ToString(i) \o "-" \o ToString(i + 9)>> \o Rotulos(i + 10, max)
    ELSE <<>>

\* idades.forEach(idade => { index = floor((idade - 1) / 10); ... bins[index]++ })
RECURSIVE Distribui(_, _)
Distribui(idades, bins) ==
    IF idades = <<>> THEN bins
    ELSE LET index == (Head(idades).h - 2) \div 20
         IN  Distribui(Tail(idades),
                 IF index >= 0 /\ index < Len(bins)
                 THEN [bins EXCEPT ![index + 1] = @ + 1] ELSE bins)

\* The bar chart atualizarGraficoDistribuicao builds; TypeError when an
\* element has no properties to read; NaoTermina when the bound is Infinity,
\* since i <= Infinity never fails.
atualizarGraficoDistribuicao(dadosFiltrados) ==
    LET brutas == [ j \in 1 .. Len(dadosFiltrados) |-> IdadeDe(dadosFiltrados[j]) ]
        idades == SelectSeq(brutas, IdadeValida)
        max == MathMax(idades)
        labels == Rotulos(1, max)
    IN  IF \E j \in 1 .. Len(brutas) : brutas[j] = TypeError THEN TypeError
        ELSE IF max.k = "inf" THEN NaoTermina
        ELSE [ t |-> "chart",
               labels |-> labels,
               data |-> Distribui(idades, [ j \in 1 .. Len(labels) |-> 0 ]) ]

(***************************************************************************)
(* The coefficient ranking of inicializarGraficoModelo                     *)
(***************************************************************************)
\* Math.abs(x)
MathAbs(x) ==
    CASE x.k = "finite" -> Num(IF x.h < 0 THEN -x.h ELSE x.h)
      [] x.k = "nan" -> NaN
      [] OTHER -> Infinity

\* x - y
Menos(x, y) ==
    CASE x.k = "nan" \/ y.k = "nan" -> NaN
      [] x.k = "finite" /\ y.k = "finite" -> Num(x.h - y.h)
      [] x.k = y.k -> NaN
      [] x.k = "inf" \/ y.k = "-inf" -> Infinity
      [] OTHER -> NegInfinity

\* A mutant of Comparador: the signed values compared.
ComparadorComSinal(a, b) == Menos(b.v, a.v)

\* (a, b) => Math.abs(b[1]) - Math.abs(a[1])
Comparador(a, b) == Menos(MathAbs(b.v), MathAbs(a.v))

\* SortCompare: the sign Array.prototype.sort takes from the comparator,
\* NaN counting as +0.
SortCompare(a, b) ==
    LET r == Comparador(a, b) IN
    CASE r.k = "nan" -> 0
      [] r.k = "inf" -> 1
      [] r.k = "-inf" -> -1
      [] OTHER -> IF r.h < 0 THEN -1 ELSE IF r.h > 0 THEN 1 ELSE 0

\* Whether the comparator is a consistent comparator for the entries:
\* antisymmetric and transitive on them.
Consistente(es) ==
    LET I == 1 .. Len(es)
        C(i, j) == SortCompare(es[i], es[j])
    IN  /\ \A i, j \in I : C(i, j) = -C(j, i)
        /\ \A i, j, l \in I :
             /\ (C(i, j) = 0 /\ C(j, l) = 0) => C(i, l) = 0
             /\ (C(i, j) < 0 /\ C(j, l) < 0) => C(i, l) < 0
             /\ (C(i, j) > 0 /\ C(j, l) > 0) => C(i, l) > 0

\* A stable sort under a consistent comparator: each entry goes after the
\* entries already placed that do not sort after it.
RECURSIVE StableSort(_, _)
StableSort(es, done) ==
    IF es = <<>> THEN done
    ELSE LET x == Head(es)
             p == Cardinality({ i \in 1 .. Len(done) : SortCompare(done[i], x) <= 0 })
         IN  StableSort(Tail(es),
                 SubSeq(done, 1, p) \o <<x>> \o SubSeq(done, p + 1, Len(done)))

\* Array.prototype.sort(comparator): the stable sort when the comparator is
\* consistent; otherwise the order is implementation-defined, any
\* arrangement of the entries.
SortOutcomes(es) ==
    IF Consistente(es) THEN { StableSort(es, <<>>) }
    ELSE { [ i \in 1 .. Len(es) |-> es[f[i]] ] :
             f \in { g \in [1 .. Len(es) -> 1 .. Len(es)] :
                       \A i, j \in 1 .. Len(es) : i # j => g[i] # g[j] } }

\* processedData: each property of data, in Object.keys order, converted by
\* Number.
processedData(data) ==
    [ i \in 1 .. Len(data) |->
        [k |-> OwnEntries(data)[i].k, v |-> ToNumber(OwnEntries(data)[i].v)] ]

\* The sortedEntries inicializarGraficoModelo may obtain from data.
sortedEntries(data) == SortOutcomes(OwnEntries(processedData(data)))

\* The bar chart built from one sortedEntries.
GraficoModeloDe(entries) ==
    [ t |-> "chart",
      labels |-> [ i \in 1 .. Len(entries) |-> entries[i].k ],
      data |-> [ i \in 1 .. Len(entries) |-> entries[i].v ] ]

(***************************************************************************)
(* What the server may answer.                                             *)
(***************************************************************************)
Vitima(idade) == Obj([idade |-> idade])
Caso(data, tipo, vitima) ==
    Obj([data_do_caso |-> data, tipo_do_caso |-> tipo, vitima |-> vitima])

\* Records that differ in their date field: a date on the first day, inside
\* and on the last day of the default range, a string that is no date, a
\* null date and no date field.
ElementosData ==
    { Caso(Str("2024-01-01"), Str("Roubo"), Vitima(Inteiro(30))),
      Caso(Str("2024-01-15T12:00:00Z"), Str("Roubo"), Vitima(Inteiro(30))),
      Caso(Str("2024-01-31"), Str("Roubo"), Vitima(Inteiro(30))),
      Caso(Str("abc"), Str("Roubo"), Vitima(Inteiro(30))),
      Caso(Null, Str("Roubo"), Vitima(Inteiro(30))),
      Obj([tipo_do_caso |-> Str("Roubo"), vitima |-> Vitima(Inteiro(30))]) }

\* Records that differ in what the two key paths resolve to.
ElementosChave ==
    { Caso(Str("2024-01-15"), Str("Roubo"), Vitima(Inteiro(30))),
      Caso(Str("2024-01-15"), Str("Furto"), Vitima(Inteiro(5))),
      Caso(Str("2024-01-15"), Inteiro(7), Vitima(Str("5"))),
      Caso(Str("2024-01-15"), Null, Inteiro(0)),
      Caso(Str("2024-01-15"), Str("Furto"), Obj(<<>>)),
      Obj([data_do_caso |-> Str("2024-01-15")]) }

\* Records that differ in the victim's age; 1e999 in a JSON text is Infinity.
ElementosIdade ==
    { Caso(Str("2024-01-15"), Str("Roubo"), Vitima(Inteiro(10))),
      Caso(Str("2024-01-15"), Str("Roubo"), Vitima(Inteiro(150))),
      Caso(Str("2024-01-15"), Str("Roubo"), Vitima(Num(201))),
      Caso(Str("2024-01-15"), Str("Roubo"), Vitima(Inteiro(0))),
      Caso(Str("2024-01-15"), Str("Roubo"), Vitima(Str("40"))),
      Caso(Str("2024-01-15"), Str("Roubo"), Vitima(Infinity)),
      Caso(Str("2024-01-15"), Str("Roubo"), Null) }

\* A record, an element that is null and a record of infinite age.
ElementosGerais ==
    { Caso(Str("2024-01-15"), Str("Roubo"), Vitima(Inteiro(30))),
      Caso(Str("2024-01-31"), Str("Furto"), Vitima(Inteiro(5))),
      Caso(Str("2024-01-15"), Str("Furto"), Vitima(Infinity)),
      Null }

SeqAte(S, n) == UNION { [1 .. m -> S] : m \in 0 .. n }

\* An answer: the fetch rejects, the body is not JSON, or the body is JSON.
Rejeita == [tipo |-> "rejeita"]
NaoJson == [tipo |-> "naoJson"]
Json(valor) == [tipo |-> "json", valor |-> valor]

\* The record arrays made of the elements S.
Arrays(S) == { Json(Arr(a)) : a \in SeqAte(S, MaxLen) }

\* The properties a coefficient object is made of, and the coefficient
\* objects: sequences of properties of distinct names, in creation order.
Coeficientes ==
    { [k |-> "idade", v |-> Inteiro(-5)],
      [k |-> "sexo", v |-> Str("2")],
      [k |-> "bairro", v |-> Inteiro(5)],
      [k |-> "etnia", v |-> Str("x")],
      [k |-> "7", v |-> Inteiro(5)] }

Mapas == { e \in SeqAte(Coeficientes, MaxCoefs) :
             \A i, j \in 1 .. Len(e) : i # j => e[i].k # e[j].k }

UmMapa == Json(Obj(<< [k |-> "sexo", v |-> Str("2")], [k |-> "idade", v |-> Inteiro(-5)] >>))

\* The pairs of answers of a page load: each answer for the records with a
\* coefficient object, and each kind of failure of either fetch.
Respostas(casos) ==
    (casos \X {UmMapa})
        \cup ({ Rejeita, NaoJson, Json(Obj([erro |-> Str("falha")])), Json(Arr(<<>>)) }
                 \X { Rejeita, NaoJson, Json(Null), UmMapa })

(***************************************************************************)
(* The state of the page.                                                  *)
(***************************************************************************)
VARIABLES
    respostaCasos,        \* what GET /api/casos answers
    respostaModelo,       \* what GET /api/modelo/coeficientes answers
    dadosCasos,           \* let dadosCasos
    graficoRosca,         \* let graficoRosca
    graficoDistribuicao,  \* let graficoDistribuicao
    graficoModelo,        \* let graficoModelo
    dataInicio,           \* the value of the input #dataInicio
    dataFim,              \* the value of the input #dataFim
    variavelRosa,         \* the value of the select #variavelRosa
    domPronto,            \* DOMContentLoaded has fired
    pcCarregar,           \* where carregarDados stands
    pcModelo,             \* where inicializarGraficoModelo stands
    alertas,              \* the alerts shown
    ciclo,                \* the last run of atualizarGraficos, as it logs it
    travado               \* the page's thread is stuck in a loop

vars ==
    << respostaCasos, respostaModelo, dadosCasos, graficoRosca, graficoDistribuicao,
       graficoModelo, dataInicio, dataFim, variavelRosa, domPronto, pcCarregar,
       pcModelo, alertas, ciclo, travado >>

\* The values the date inputs and the select can be given.
Datas == {"", "2024-01-01", "2024-01-15", "2024-01-31"}
Variaveis == {"tipo_do_caso", "vitima.idade"}

\* The page once the script has run: carregarDados() has issued its fetch.
InitCom(respostas) ==
    /\ \E r \in respostas : respostaCasos = r[1] /\ respostaModelo = r[2]
    /\ dadosCasos = Arr(<<>>)
    /\ graficoRosca = Null
    /\ graficoDistribuicao = Null
    /\ graficoModelo = Null
    /\ dataInicio = ""
    /\ dataFim = ""
    /\ variavelRosa = "tipo_do_caso"
    /\ domPronto = FALSE
    /\ pcCarregar = "fetch"
    /\ pcModelo = "nao_chamada"
    /\ alertas = 0
    /\ ciclo = [st |-> "nenhum"]
    /\ travado = FALSE

Init == InitCom(Respostas(Arrays(ElementosGerais)))
InitFiltro == InitCom(Respostas(Arrays(ElementosData)))
InitContagem == InitCom(Respostas(Arrays(ElementosChave)))
InitDistribuicao == InitCom(Respostas(Arrays(ElementosIdade)))
InitModelo == InitCom(Respostas({}) \cup ({Json(Arr(<<>>))} \X { Json(Obj(e)) : e \in Mapas }))

\* atualizarGraficos() over casos with the inputs inicio, fim, variavel: what
\* it logs and the charts it leaves.  st is "ok" when it returns, "TypeError"
\* when it throws, "naoTermina" when it never returns.
atualizarGraficos(casos, inicio, fim, variavel, rosca, dist) ==
    LET dadosFiltrados == filtrarPorData(casos, inicio, fim)
        novaRosca == atualizarGraficoRosca(dadosFiltrados.a, variavel)
        novaDist == atualizarGraficoDistribuicao(dadosFiltrados.a)
        log == [inicio |-> inicio, fim |-> fim, variavel |-> variavel, entrada |-> casos]
    IN  IF dadosFiltrados = TypeError
        THEN [st |-> "TypeError", log |-> log, rosca |-> rosca, dist |-> dist]
        ELSE [ st |-> CASE novaDist = TypeError -> "TypeError"
                        [] novaDist = NaoTermina -> "naoTermina"
                        [] OTHER -> "ok",
               log |-> log,
               dadosFiltrados |-> dadosFiltrados.a,
               rosca |-> novaRosca,
               dist |-> IF novaDist.t = "chart" THEN novaDist ELSE dist ]

\* The part of a step that is a run of atualizarGraficos.
Redesenha(casos, inicio, fim, variavel) ==
    LET r == atualizarGraficos(casos, inicio, fim, variavel, graficoRosca, graficoDistribuicao)
    IN  /\ ciclo' = r
        /\ graficoRosca' = r.rosca
        /\ graficoDistribuicao' = r.dist
        /\ travado' = (r.st = "naoTermina")

\* The DOMContentLoaded listener: the last 30 days.
DOMContentLoaded ==
    /\ ~travado /\ ~domPronto
    /\ domPronto' = TRUE
    /\ dataInicio' = "2024-01-01"
    /\ dataFim' = "2024-01-31"
    /\ UNCHANGED << respostaCasos, respostaModelo, dadosCasos, graficoRosca,
                    graficoDistribuicao, graficoModelo, variavelRosa, pcCarregar,
                    pcModelo, alertas, ciclo, travado >>

\* carregarDados: await fetch(...) rejects; the catch alerts.
CarregarFetchReject ==
    /\ ~travado /\ pcCarregar = "fetch" /\ respostaCasos = Rejeita
    /\ pcCarregar' = "catch"
    /\ alertas' = alertas + 1
    /\ UNCHANGED << respostaCasos, respostaModelo, dadosCasos, graficoRosca,
                    graficoDistribuicao, graficoModelo, dataInicio, dataFim,
                    variavelRosa, domPronto, pcModelo, ciclo, travado >>

\* carregarDados: await fetch(...) resolves; res.json() is awaited.
CarregarFetchResolve ==
    /\ ~travado /\ pcCarregar = "fetch" /\ respostaCasos # Rejeita
    /\ pcCarregar' = "json"
    /\ UNCHANGED << respostaCasos, respostaModelo, dadosCasos, graficoRosca,
                    graficoDistribuicao, graficoModelo, dataInicio, dataFim,
                    variavelRosa, domPronto, pcModelo, alertas, ciclo, travado >>

\* carregarDados: await res.json() rejects; the catch alerts.
CarregarJsonReject ==
    /\ ~travado /\ pcCarregar = "json" /\ respostaCasos = NaoJson
    /\ pcCarregar' = "catch"
    /\ alertas' = alertas + 1
    /\ UNCHANGED << respostaCasos, respostaModelo, dadosCasos, graficoRosca,
                    graficoDistribuicao, graficoModelo, dataInicio, dataFim,
                    variavelRosa, domPronto, pcModelo, ciclo, travado >>

\* carregarDados: await res.json() resolves: dadosCasos is assigned, then
\* atualizarGraficos() runs, then inicializarGraficoModelo() is called and
\* issues its fetch; an error thrown on the way is caught and alerted.
CarregarJsonResolve ==
    /\ ~travado /\ pcCarregar = "json" /\ respostaCasos.tipo = "json"
    /\ dadosCasos' = respostaCasos.valor
    /\ Redesenha(respostaCasos.valor, dataInicio, dataFim, variavelRosa)
    /\ pcCarregar' = CASE ciclo'.st = "ok" -> "fim"
                       [] ciclo'.st = "TypeError" -> "catch"
                       [] OTHER -> "atualizarGraficos"
    /\ pcModelo' = IF ciclo'.st = "ok" THEN "fetch" ELSE pcModelo
    /\ alertas' = IF ciclo'.st = "TypeError" THEN alertas + 1 ELSE alertas
    /\ UNCHANGED << respostaCasos, respostaModelo, graficoModelo, dataInicio,
                    dataFim, variavelRosa, domPronto >>

\* inicializarGraficoModelo: await fetch(...) rejects; the catch logs.
ModeloFetchReject ==
    /\ ~travado /\ pcModelo = "fetch" /\ respostaModelo = Rejeita
    /\ pcModelo' = "catch"
    /\ UNCHANGED << respostaCasos, respostaModelo, dadosCasos, graficoRosca,
                    graficoDistribuicao, graficoModelo, dataInicio, dataFim,
                    variavelRosa, domPronto, pcCarregar, alertas, ciclo, travado >>

\* inicializarGraficoModelo: await fetch(...) resolves; res.json() is awaited.
ModeloFetchResolve ==
    /\ ~travado /\ pcModelo = "fetch" /\ respostaModelo # Rejeita
    /\ pcModelo' = "json"
    /\ UNCHANGED << respostaCasos, respostaModelo, dadosCasos, graficoRosca,
                    graficoDistribuicao, graficoModelo, dataInicio, dataFim,
                    variavelRosa, domPronto, pcCarregar, alertas, ciclo, travado >>

\* inicializarGraficoModelo: await res.json() rejects, or resolves to a value
\* Object.keys throws on; the catch logs.
ModeloJsonReject ==
    /\ ~travado /\ pcModelo = "json"
    /\ IF respostaModelo = NaoJson THEN TRUE
       ELSE respostaModelo.valor.t \in {"null", "undefined"}
    /\ pcModelo' = "catch"
    /\ UNCHANGED << respostaCasos, respostaModelo, dadosCasos, graficoRosca,
                    graficoDistribuicao, graficoModelo, dataInicio, dataFim,
                    variavelRosa, domPronto, pcCarregar, alertas, ciclo, travado >>

\* inicializarGraficoModelo: await res.json() resolves to an object: the
\* entries are converted, sorted and charted.
ModeloJsonResolve ==
    /\ ~travado /\ pcModelo = "json"
    /\ respostaModelo.tipo = "json" /\ respostaModelo.valor.t = "object"
    /\ \E entries \in sortedEntries(respostaModelo.valor.f) :
            graficoModelo' = GraficoModeloDe(entries)
    /\ pcModelo' = "fim"
    /\ UNCHANGED << respostaCasos, respostaModelo, dadosCasos, graficoRosca,
                    graficoDistribuicao, dataInicio, dataFim, variavelRosa,
                    domPronto, pcCarregar, alertas, ciclo, travado >>

\* The change listener of #dataInicio, once the user has given the input of
\* the loaded page a value.
MudaDataInicio ==
    /\ ~travado /\ domPronto
    /\ \E v \in Datas \ {dataInicio} :
         /\ dataInicio' = v
         /\ Redesenha(dadosCasos, v, dataFim, variavelRosa)
    /\ UNCHANGED << respostaCasos, respostaModelo, dadosCasos, graficoModelo,
                    dataFim, variavelRosa, domPronto, pcCarregar, pcModelo, alertas >>

\* The change listener of #dataFim.
MudaDataFim ==
    /\ ~travado /\ domPronto
    /\ \E v \in Datas \ {dataFim} :
         /\ dataFim' = v
         /\ Redesenha(dadosCasos, dataInicio, v, variavelRosa)
    /\ UNCHANGED << respostaCasos, respostaModelo, dadosCasos, graficoModelo,
                    dataInicio, variavelRosa, domPronto, pcCarregar, pcModelo, alertas >>

\* The change listener of #variavelRosa.
MudaVariavel ==
    /\ ~travado /\ domPronto
    /\ \E v \in Variaveis \ {variavelRosa} :
         /\ variavelRosa' = v
         /\ Redesenha(dadosCasos, dataInicio, dataFim, v)
    /\ UNCHANGED << respostaCasos, respostaModelo, dadosCasos, graficoModelo,
                    dataInicio, dataFim, domPronto, pcCarregar, pcModelo, alertas >>

Next ==
    \/ DOMContentLoaded
    \/ CarregarFetchReject
    \/ CarregarFetchResolve
    \/ CarregarJsonReject
    \/ CarregarJsonResolve
    \/ ModeloFetchReject
    \/ ModeloFetchResolve
    \/ ModeloJsonReject
    \/ ModeloJsonResolve
    \/ MudaDataInicio
    \/ MudaDataFim
    \/ MudaVariavel

Spec == Init /\ [][Next]_vars
SpecFiltro == InitFiltro /\ [][Next]_vars
SpecContagem == InitContagem /\ [][Next]_vars
SpecDistribuicao == InitDistribuicao /\ [][Next]_vars
SpecModelo == InitModelo /\ [][Next]_vars

(***************************************************************************)
(* The claims.  A run of atualizarGraficos whose filter returned has logged *)
(* its output; one that returned altogether has st = "ok".                 *)
(***************************************************************************)
FiltroRetornou == "dadosFiltrados" \in DOMAIN ciclo

RECURSIVE Soma(_)
Soma(q) == IF q = <<>> THEN 0 ELSE Head(q) + Soma(Tail(q))

\* The record's date field is a string that is a date, and the hour it names.
TemDataValida(c) ==
    /\ c.t = "object"
    /\ "data_do_caso" \in DOMAIN c.f
    /\ c.f.data_do_caso.t = "string"
    /\ DateParse(c.f.data_do_caso.s).ok
HoraDe(c) == DateParse(c.f.data_do_caso.s).h
DentroDosLimites(c, inicio, fim) ==
    /\ inicio = "" \/ HoraDe(c) >= DateParse(inicio).h
    /\ fim = "" \/ HoraDe(c) <= DateParse(fim).h

\* C1: of the records whose date field is a valid date d, filtrarPorData
\* keeps exactly those with (start empty or d >= start) and (end empty or
\* d <= end), both bounds inclusive.
C1_FiltroInclusivo ==
    FiltroRetornou =>
        LET Esperado(c) ==
                TemDataValida(c) /\ DentroDosLimites(c, ciclo.log.inicio, ciclo.log.fim)
        IN  SelectSeq(ciclo.dadosFiltrados, TemDataValida)
                = SelectSeq(ciclo.log.entrada.a, Esperado)

\* A record dated exactly at the start bound is kept, and one dated after the
\* end bound is dropped.
C1_Witness ==
    /\ FiltroRetornou
    /\ ciclo.log.inicio = "2024-01-01" /\ ciclo.log.fim = "2024-01-15"
    /\ Len(ciclo.log.entrada.a) = 2
    /\ TemDataValida(ciclo.log.entrada.a[1]) /\ TemDataValida(ciclo.log.entrada.a[2])
    /\ HoraDe(ciclo.log.entrada.a[1]) = DateParse("2024-01-01").h
    /\ HoraDe(ciclo.log.entrada.a[2]) > DateParse("2024-01-15").h
    /\ ciclo.dadosFiltrados = <<ciclo.log.entrada.a[1]>>

\* C2: a record whose date field is missing or is no valid date is never in
\* the output of filtrarPorData, whatever the bounds.
C2_FechaSemData ==
    FiltroRetornou =>
        \A i \in 1 .. Len(ciclo.dadosFiltrados) : TemDataValida(ciclo.dadosFiltrados[i])

\* The keys of the records that contribute to the tally, in record order, and
\* the distinct ones in the order each first occurs.
ChavesDe(dados, chave) ==
    LET Conta(c) == Valor(c, chave).t \notin {"throw", "undefined", "null"}
        quem == SelectSeq(dados, Conta)
    IN  [ i \in 1 .. Len(quem) |-> ToPropertyKey(Valor(quem[i], chave)) ]

RECURSIVE SemRepetir(_, _)
SemRepetir(q, vistos) ==
    IF q = <<>> THEN <<>>
    ELSE IF Head(q) \in vistos THEN SemRepetir(Tail(q), vistos)
    ELSE <<Head(q)>> \o SemRepetir(Tail(q), vistos \cup {Head(q)})

PrimeirasOcorrencias == SemRepetir(ChavesDe(ciclo.dadosFiltrados, ciclo.log.variavel), {})

RECURSIVE Resolve(_, _)
Resolve(o, partes) ==
    IF partes = <<>> THEN o
    ELSE IF o.t # "object" \/ Head(partes) \notin DOMAIN o.f THEN Undefined
    ELSE Resolve(o.f[Head(partes)], Tail(partes))

\* C4: a record contributes to the tally iff its key path resolves to a value
\* that is neither absent nor null; the keys are the string forms of those
\* values and each count is the number of records resolving to that key.
C4_ContagemPorChave ==
    FiltroRetornou =>
        LET partes == Partes(ciclo.log.variavel)
            Contribui(c) == Resolve(c, partes).t \notin {"undefined", "null"}
            quem == SelectSeq(ciclo.dadosFiltrados, Contribui)
            ChaveDe(c) == ToPropertyKey(Resolve(c, partes))
            labels == graficoRosca.labels
        IN  /\ { labels[i] : i \in 1 .. Len(labels) } = { ChaveDe(quem[i]) : i \in 1 .. Len(quem) }
            /\ \A i \in 1 .. Len(labels) :
                 graficoRosca.data[i]
                    = Cardinality({ j \in 1 .. Len(quem) : ChaveDe(quem[j]) = labels[i] })
            /\ Soma(graficoRosca.data) = Len(quem)

\* The victim ages that are numeric, finite and greater than 0, in halves.
IdadesFinitas(dados) ==
    LET Tem(c) ==
            /\ c.t = "object" /\ "vitima" \in DOMAIN c.f
            /\ c.f.vitima.t = "object" /\ "idade" \in DOMAIN c.f.vitima.f
            /\ IsFinite(c.f.vitima.f.idade) /\ c.f.vitima.f.idade.h > 0
        quem == SelectSeq(dados, Tem)
    IN  [ i \in 1 .. Len(quem) |-> quem[i].f.vitima.f.idade.h ]

\* max(100, largest valid age), in halves.
Limite(dados) ==
    LET hs == { IdadesFinitas(dados)[i] : i \in 1 .. Len(IdadesFinitas(dados)) } \cup {200}
    IN  CHOOSE m \in hs : \A x \in hs : x <= m

\* The k-th bin (k from 0) is labelled "{10k+1}-{10k+10}" and the labels and
\* the counts are as many.
BinsBemFormados(g) ==
    /\ Len(g.data) = Len(g.labels)
    /\ \A k \in 0 .. Len(g.labels) - 1 :
         g.labels[k + 1] = ToString(10 * k + 1) \o "-" \o ToString(10 * k + 10)

C6_ContaIdadesFinitas ==
    FiltroRetornou =>
        /\ ciclo.st = "ok"
        /\ Soma(graficoDistribuicao.data) = Len(IdadesFinitas(ciclo.dadosFiltrados))
        /\ \A k \in 1 .. Len(graficoDistribuicao.data) :
             graficoDistribuicao.data[k]
                = Cardinality({ i \in 1 .. Len(IdadesFinitas(ciclo.dadosFiltrados)) :
                                  (IdadesFinitas(ciclo.dadosFiltrados)[i] - 2) \div 20 = k - 1 })

\* The entries of the coefficient object the server answered with, each value
\* converted to a number, in the order of the JSON text and in the order
\* Object.keys enumerates them, and the entries the chart shows.
Convertidos ==
    [ i \in 1 .. Len(respostaModelo.valor.f) |->
        [k |-> respostaModelo.valor.f[i].k, v |-> ToNumber(respostaModelo.valor.f[i].v)] ]
Enumerados == OwnEntries(Convertidos)
Mostrados ==
    [ i \in 1 .. Len(graficoModelo.labels) |->
        [k |-> graficoModelo.labels[i], v |-> graficoModelo.data[i]] ]
Magnitude(e) == IF e.v.h < 0 THEN -e.v.h ELSE e.v.h

\* The shown entries are the converted ones rearranged, by non-increasing
\* absolute value, entries of equal absolute value in their original order.
Ordenados(de, para) ==
    /\ Len(para) = Len(de)
    /\ { para[i] : i \in 1 .. Len(para) } = { de[i] : i \in 1 .. Len(de) }
    /\ \A i, j \in 1 .. Len(para) :
         i < j =>
           /\ IsFinite(para[i].v) /\ IsFinite(para[j].v)
           /\ Magnitude(para[i]) >= Magnitude(para[j])
           /\ Magnitude(para[i]) = Magnitude(para[j]) =>
                (CHOOSE m \in 1 .. Len(de) : de[m] = para[i])
                    < (CHOOSE m \in 1 .. Len(de) : de[m] = para[j])

\* C7, as claimed: for every coefficient object the chart shows its entries
\* by non-increasing absolute value, ties in their original order, signs kept.
C7_RankingDeTodos ==
    pcModelo = "fim" => Ordenados(Convertidos, Mostrados)

\* C7, amended: the same for every coefficient object whose values all
\* convert to numbers other than NaN, ties in the order Object.keys
\* enumerates the entries (names that are array indices first).
C7_Ranking ==
    (pcModelo = "fim" /\ \A i \in 1 .. Len(Convertidos) : Convertidos[i].v.k # "nan")
        => Ordenados(Enumerados, Mostrados)

\* "2", -5 and 5 are shown as -5, 5, 2: by magnitude, the tie in its original
\* order, the string converted and the sign kept.
C7_Witness ==
    /\ pcModelo = "fim"
    /\ Len(Convertidos) = 3
    /\ graficoModelo.labels = <<"idade", "bairro", "sexo">>
    /\ graficoModelo.data = <<Inteiro(-5), Inteiro(5), Inteiro(2)>>

\* C8: when the load fails dadosCasos is left as it was, the empty array, and
\* it is never a value that is no array.
C8_TudoOuNada ==
    /\ dadosCasos.t = "array"
    /\ pcCarregar = "catch" => dadosCasos = Arr(<<>>)

\* C9: on every record array the date filter, the occurrence counter and the
\* histogram binner each return without raising an error.
C9_Total ==
    (ciclo.st # "nenhum" /\ ciclo.log.entrada.t = "array") => ciclo.st = "ok"

\* C10: whatever the outcome of the fetch of the case records, the fetch of
\* the model coefficients is issued.
C10_Independentes ==
    pcCarregar \in {"fim", "catch"} => pcModelo # "nao_chamada"

====
